---- MODULE Spec2Model ----
(***************************************************************************)
(* snake_trainer as a state machine: the snake game engine                 *)
(* (src/src/engine.rs), the feature vector (src/src/features.rs), the      *)
(* network (src/src/nn.rs), the DQN agent (src/src/agent.rs) and the       *)
(* training loop of main (src/src/main.rs).                                *)
(*                                                                         *)
(* Spec and SpecShort explore the engine on its own through its public     *)
(* methods reset and step; SpecTrain follows the training loop; SpecDecay  *)
(* follows the exploration rate over many episodes and SpecRate the        *)
(* learning rate over many training updates; SpecEpisode runs the episodes *)
(* of the loop under weak fairness.  Every random draw (rand::thread_rng)  *)
(* is a nondeterministic choice.                                           *)
(*                                                                         *)
(* Points are pairs <<x, y>>.  The snake is a sequence of points with the  *)
(* head at index 1 (index 0 of the Vec).  Rewards are f32 values that are  *)
(* all multiples of 0.5; the model stores them in halves (reward -10.0 is  *)
(* -20, +0.5 is 1), which is exact.  The numbers of the network and of the *)
(* agent are kept in fixed point, as their sections say.                   *)
(***************************************************************************)
EXTENDS Integers, Sequences, FiniteSets

\* grid_size handed to SnakeEngine::new.  The trainer uses 20; the model
\* explores a small board so that every body shape, the full board included,
\* is reached.  On a board of side 3 reset's third cell (mid - 2, mid) is
\* (-1, 1), left of the grid, exactly as reset computes it; the cell leaves
\* the body with the first move that does not eat.
GridSize == 3

\* The input and output widths of the network (src/src/nn.rs).
INPUT_SIZE == 22
OUTPUT_SIZE == 4

\* The rewards of step, in halves.
TerminalReward == -20
FoodReward == 20
ScoreStep == 10

VARIABLES grid_size, snake, direction, food, score, game_over,
          steps_without_food,
          op, action, reward, done, pre,
          agent, pc, state, next_state, chosen, call, log

engine == <<grid_size, snake, direction, food, score, game_over,
            steps_without_food>>
\* The trainer (src/src/main.rs): its agent, its place in the training loop,
\* the locals state and next_state, the action act returned, the last call
\* on the agent and the experiences handed to remember so far.
trainer == <<agent, pc, state, next_state, chosen, call, log>>
vars == <<grid_size, snake, direction, food, score, game_over,
          steps_without_food, op, action, reward, done, pre,
          agent, pc, state, next_state, chosen, call, log>>

\* The SnakeEngine struct as one value.
Self == [grid_size |-> grid_size, snake |-> snake, direction |-> direction,
         food |-> food, score |-> score, game_over |-> game_over,
         steps_without_food |-> steps_without_food]

\* Body applied to the value of v, which is computed once.
Bind(v, Body(_)) == CHOOSE r \in {Body(x) : x \in {v}} : TRUE

----------------------------------------------------------------------------
\* Direction and the action table.

Direction == {"Up", "Right", "Down", "Left"}

opposite(d) ==
    CASE d = "Up" -> "Down"
      [] d = "Down" -> "Up"
      [] d = "Left" -> "Right"
      [] d = "Right" -> "Left"

delta(d) ==
    CASE d = "Up" -> <<0, -1>>
      [] d = "Right" -> <<1, 0>>
      [] d = "Down" -> <<0, 1>>
      [] d = "Left" -> << -1, 0>>

\* The ACTIONS table (ACTIONS is a reserved word); index 0..3, the sequence
\* is 1-based.
ACTION_TABLE == <<"Up", "Right", "Down", "Left">>
ActionIndex == 0 .. (Len(ACTION_TABLE) - 1)

Abs(n) == IF n < 0 THEN -n ELSE n
Manhattan(p, q) == Abs(p[1] - q[1]) + Abs(p[2] - q[2])
Cells(s) == {s[i] : i \in 1 .. Len(s)}
GridCells(gs) == (0 .. (gs - 1)) \X (0 .. (gs - 1))

----------------------------------------------------------------------------
\* Faulty variants of spawn_food: one that does not filter out the body, one
\* whose full-board fallback is another corner.
spawn_food_unfiltered(gs, s) == GridCells(gs)

spawn_food_other_corner(gs, s) ==
    LET free == {p \in GridCells(gs) : p \notin Cells(s)}
    IN  IF free = {} THEN {<<gs - 1, gs - 1>>} ELSE free

\* spawn_food: the cells the random draw can return.
spawn_food(gs, s) ==
    LET free == {p \in GridCells(gs) : p \notin Cells(s)}
    IN  IF free = {} THEN {<<0, 0>>} ELSE free

\* Faulty variant of the heading rule: the reversal is not filtered.
adopt_direction_unguarded(dir, current) == dir

\* The heading step uses: the requested one unless it reverses the current.
adopt_direction(dir, current) ==
    IF opposite(dir) # current THEN dir ELSE current

\* Faulty variants of the body test: one that spares the tail cell, one that
\* asks for all() body cells instead of any().
hits_body_spares_tail(p, s) ==
    \E i \in 1 .. (Len(s) - 1) : s[i][1] = p[1] /\ s[i][2] = p[2]

hits_body_all(p, s) ==
    \A i \in 1 .. Len(s) : s[i][1] = p[1] /\ s[i][2] = p[2]

\* The two collision tests of update.
out_of_bounds(p, gs) ==
    p[1] < 0 \/ p[1] >= gs \/ p[2] < 0 \/ p[2] >= gs

hits_body(p, s) == \E i \in 1 .. Len(s) : s[i][1] = p[1] /\ s[i][2] = p[2]

\* Faulty variant of update: the tail is kept on every move.
update_never_pops(e) ==
    IF e.game_over THEN {e}
    ELSE
      LET d == delta(e.direction)
          head == e.snake[1]
          new_head == <<head[1] + d[1], head[2] + d[2]>>
      IN  IF out_of_bounds(new_head, e.grid_size)
            THEN {[e EXCEPT !.game_over = TRUE]}
          ELSE IF \E i \in 1 .. Len(e.snake) : e.snake[i] = new_head
            THEN {[e EXCEPT !.game_over = TRUE]}
          ELSE
            LET grown == <<new_head>> \o e.snake
            IN  IF new_head = e.food
                  THEN {[e EXCEPT !.snake = grown,
                                  !.score = @ + ScoreStep,
                                  !.food = f] :
                           f \in {p \in GridCells(e.grid_size) :
                                     p \notin Cells(grown)}}
                  ELSE {[e EXCEPT !.snake = grown]}

\* Faulty variant of update: the tail is popped on an eating move too.
update_always_pops(e) ==
    IF e.game_over THEN {e}
    ELSE
      LET d == delta(e.direction)
          head == e.snake[1]
          new_head == <<head[1] + d[1], head[2] + d[2]>>
      IN  IF out_of_bounds(new_head, e.grid_size)
            THEN {[e EXCEPT !.game_over = TRUE]}
          ELSE IF \E i \in 1 .. Len(e.snake) : e.snake[i] = new_head
            THEN {[e EXCEPT !.game_over = TRUE]}
          ELSE
            LET moved == <<new_head>> \o SubSeq(e.snake, 1, Len(e.snake) - 1)
            IN  IF new_head = e.food
                  THEN {[e EXCEPT !.snake = moved,
                                  !.score = @ + ScoreStep,
                                  !.food = f] :
                           f \in {p \in GridCells(e.grid_size) :
                                     p \notin Cells(moved)}}
                  ELSE {[e EXCEPT !.snake = moved]}

\* update: the set of engines it can leave (one per food draw).
update(e) ==
    IF e.game_over THEN {e}
    ELSE
      LET d == delta(e.direction)
          head == e.snake[1]
          new_head == <<head[1] + d[1], head[2] + d[2]>>
      IN  IF out_of_bounds(new_head, e.grid_size)
            THEN {[e EXCEPT !.game_over = TRUE]}
          ELSE IF hits_body(new_head, e.snake)
            THEN {[e EXCEPT !.game_over = TRUE]}
          ELSE
            LET grown == <<new_head>> \o e.snake
            IN  IF new_head[1] = e.food[1] /\ new_head[2] = e.food[2]
                  THEN {[e EXCEPT !.snake = grown,
                                  !.score = @ + ScoreStep,
                                  !.food = f] :
                           f \in spawn_food(e.grid_size, grown)}
                  ELSE {[e EXCEPT !.snake = SubSeq(grown, 1, Len(grown) - 1)]}

----------------------------------------------------------------------------
\* The two breadth-first searches of the reward shaping.

Neighbours(p) == {<<p[1], p[2] - 1>>, <<p[1] + 1, p[2]>>,
                  <<p[1], p[2] + 1>>, <<p[1] - 1, p[2]>>}

\* The visited set of a search from `seen` over in-grid cells not in blocked.
RECURSIVE Flood(_, _, _)
Flood(gs, blocked, seen) ==
    Bind(seen, LAMBDA visited :
    Bind({n \in UNION {Neighbours(c) : c \in visited} :
             /\ ~out_of_bounds(n, gs)
             /\ n \notin blocked
             /\ n \notin visited},
         LAMBDA next :
           IF next = {} THEN visited
                        ELSE Flood(gs, blocked, visited \cup next)))

\* count: one per cell popped from the queue, the head included.
flood_fill_from_head(e) ==
    Cardinality(Flood(e.grid_size, Cells(e.snake), {e.snake[1]}))

\* true as soon as a popped cell has the tail as a neighbour; the tail cell
\* itself is never queued.
can_reach_tail(e) ==
    LET tail == e.snake[Len(e.snake)]
        visited == Flood(e.grid_size, Cells(e.snake) \cup {tail}, {e.snake[1]})
    IN  \E c \in visited : tail \in Neighbours(c)

\* Faulty variant of the size test: the safety term is always added.
safety_applies_always(len, area) == TRUE

\* snake_len > area * 0.15, on integers.  (f32 0.15 lies just above 0.15 and
\* the product is rounded monotonically, so no integer length is moved across
\* the mark.)
safety_applies(len, area) == 100 * len > 15 * area

\* space_penalty + tail_bonus, in halves.
safety_bonus(e) ==
    LET len == Len(e.snake)
        area == e.grid_size * e.grid_size
    IN  IF safety_applies(len, area)
          THEN LET reachable == flood_fill_from_head(e)
                   space_penalty == IF reachable < len THEN -4
                                    ELSE IF 2 * reachable < 3 * len THEN -1
                                    ELSE 0
                   tail_bonus == IF can_reach_tail(e) THEN 1 ELSE -2
               IN  space_penalty + tail_bonus
          ELSE 0

\* Faulty variant of the starvation limit: the side instead of the area.
starvation_limit_side(gs) == gs

\* grid_size * grid_size, the count steps_without_food may not exceed.
starvation_limit(gs) == gs * gs

\* Faulty variant of step: moves without a meal are not counted.
step_outcomes_uncounted(e, a) ==
    LET dir == ACTION_TABLE[a + 1]
        e1 == [e EXCEPT !.direction = adopt_direction(dir, e.direction)]
        prev_dist == Manhattan(e1.snake[1], e1.food)
        prev_score == e1.score
        after(u) ==
          IF u.game_over THEN <<u, TerminalReward>>
          ELSE IF u.score > prev_score
            THEN <<[u EXCEPT !.steps_without_food = 0], FoodReward>>
          ELSE
            LET new_dist == Manhattan(u.snake[1], u.food)
                approach == IF new_dist < prev_dist THEN 2 ELSE -2
            IN  <<u, approach + safety_bonus(u)>>
    IN  {after(u) : u \in update(e1)}

\* Faulty variant of step: the move that exceeds the starvation limit ends
\* the episode but is rewarded as a plain move.
step_outcomes_starved_unpunished(e, a) ==
    LET dir == ACTION_TABLE[a + 1]
        e1 == [e EXCEPT !.direction = adopt_direction(dir, e.direction)]
        prev_dist == Manhattan(e1.snake[1], e1.food)
        prev_score == e1.score
        after(u) ==
          IF u.game_over THEN <<u, TerminalReward>>
          ELSE IF u.score > prev_score
            THEN <<[u EXCEPT !.steps_without_food = 0], FoodReward>>
          ELSE
            LET v == [u EXCEPT !.steps_without_food = @ + 1]
                new_dist == Manhattan(v.snake[1], v.food)
                approach == IF new_dist < prev_dist THEN 2 ELSE -2
            IN  IF v.steps_without_food > starvation_limit(v.grid_size)
                  THEN <<[v EXCEPT !.game_over = TRUE],
                         approach + safety_bonus(v)>>
                  ELSE <<v, approach + safety_bonus(v)>>
    IN  {after(u) : u \in update(e1)}

\* step: the set of <<engine after the call, reward>> it can produce.
step_outcomes(e, a) ==
    LET dir == ACTION_TABLE[a + 1]
        e1 == [e EXCEPT !.direction = adopt_direction(dir, e.direction)]
        prev_dist == Manhattan(e1.snake[1], e1.food)
        prev_score == e1.score
        after(u) ==
          IF u.game_over THEN <<u, TerminalReward>>
          ELSE IF u.score > prev_score
            THEN <<[u EXCEPT !.steps_without_food = 0], FoodReward>>
          ELSE
            LET v == [u EXCEPT !.steps_without_food = @ + 1]
            IN  IF v.steps_without_food > starvation_limit(v.grid_size)
                  THEN <<[v EXCEPT !.game_over = TRUE], TerminalReward>>
                  ELSE LET new_dist == Manhattan(v.snake[1], v.food)
                           approach == IF new_dist < prev_dist THEN 2 ELSE -2
                       IN  <<v, approach + safety_bonus(v)>>
    IN  {after(u) : u \in update(e1)}

\* Faulty variant of reset: the score is not cleared.
reset_keeps_score(e) ==
    LET mid == e.grid_size \div 2
        body == <<<<mid, mid>>, <<mid - 1, mid>>, <<mid - 2, mid>>>>
    IN  {[e EXCEPT !.snake = body, !.direction = "Right",
                   !.game_over = FALSE, !.steps_without_food = 0,
                   !.food = f] : f \in {p \in GridCells(e.grid_size) :
                                           p \notin Cells(body)}}

\* Faulty variant of reset: steps_without_food is not cleared.
reset_keeps_counter(e) ==
    LET mid == e.grid_size \div 2
        body == <<<<mid, mid>>, <<mid - 1, mid>>, <<mid - 2, mid>>>>
    IN  {[e EXCEPT !.snake = body, !.direction = "Right", !.score = 0,
                   !.game_over = FALSE,
                   !.food = f] : f \in {p \in GridCells(e.grid_size) :
                                           p \notin Cells(body)}}

\* reset: the engines it can leave (one per food draw).
reset_outcomes(e) ==
    LET mid == e.grid_size \div 2
        body == <<<<mid, mid>>, <<mid - 1, mid>>, <<mid - 2, mid>>>>
    IN  {[e EXCEPT !.snake = body, !.direction = "Right", !.score = 0,
                   !.game_over = FALSE, !.steps_without_food = 0,
                   !.food = f] : f \in spawn_food(e.grid_size, body)}

----------------------------------------------------------------------------
\* extract_features (src/src/features.rs).  A feature is an f32; the model
\* keeps it as the fraction <<numerator, denominator>> the code divides out.

Frac(n, d) == <<n, d>>
Flag(b) == IF b THEN Frac(1, 1) ELSE Frac(0, 1)
Sign(n) == IF n > 0 THEN 1 ELSE IF n < 0 THEN -1 ELSE 0

\* (straight, right, left) for a heading.
relative_dirs(dir) ==
    CASE dir = "Up" -> <<"Up", "Right", "Left">>
      [] dir = "Right" -> <<"Right", "Down", "Up">>
      [] dir = "Down" -> <<"Down", "Left", "Right">>
      [] dir = "Left" -> <<"Left", "Up", "Down">>

is_collision(x, y, e) ==
    IF x < 0 \/ x >= e.grid_size \/ y < 0 \/ y >= e.grid_size
      THEN TRUE
      ELSE \E i \in 1 .. Len(e.snake) : e.snake[i][1] = x /\ e.snake[i][2] = y

\* The steps ray_distance counts from the cell (x, y) on, dist so far.
RECURSIVE RaySteps(_, _, _, _, _, _)
RaySteps(e, x, y, dx, dy, dist) ==
    IF /\ x >= 0 /\ x < e.grid_size /\ y >= 0 /\ y < e.grid_size
       /\ ~\E i \in 1 .. Len(e.snake) : e.snake[i][1] = x /\ e.snake[i][2] = y
      THEN RaySteps(e, x + dx, y + dy, dx, dy, dist + 1)
      ELSE dist

ray_distance(e, dx, dy) ==
    Frac(RaySteps(e, e.snake[1][1] + dx, e.snake[1][2] + dy, dx, dy, 1),
         e.grid_size)

\* flood_fill_from returns 0 for a start cell that is off the grid or
\* occupied, and else counts the cells its search pops.
flood_fill_from(start, gs, occupied) ==
    IF out_of_bounds(start, gs) \/ start \in occupied
      THEN 0
      ELSE Cardinality(Flood(gs, occupied, {start}))

extract_features(e) ==
    LET head == e.snake[1]
        tail == e.snake[Len(e.snake)]
        dir == e.direction
        gs == e.grid_size
        rel == relative_dirs(dir)
        sd == delta(rel[1])
        rd == delta(rel[2])
        ld == delta(rel[3])
        danger(d, k) == Flag(is_collision(head[1] + d[1] * k,
                                          head[2] + d[2] * k, e))
        occupied == Cells(e.snake)
        total_free == gs * gs - Len(e.snake)
        reachable == flood_fill_from(head, gs, occupied)
        flood_ratio == IF total_free > 0 THEN Frac(reachable, total_free)
                                         ELSE Frac(0, 1)
        flood_max == IF total_free > 1 THEN total_free ELSE 1
        flood_dir(d) == Frac(flood_fill_from(<<head[1] + d[1], head[2] + d[2]>>,
                                             gs, occupied), flood_max)
    IN  << danger(sd, 1), danger(rd, 1), danger(ld, 1),
           danger(sd, 2), danger(rd, 2), danger(ld, 2),
           ray_distance(e, sd[1], sd[2]),
           ray_distance(e, rd[1], rd[2]),
           ray_distance(e, ld[1], ld[2]),
           Flag(dir = "Up"), Flag(dir = "Right"),
           Flag(dir = "Down"), Flag(dir = "Left"),
           Flag(e.food[2] < head[2]), Flag(e.food[1] > head[1]),
           Flag(e.food[2] > head[2]), Flag(e.food[1] < head[1]),
           Frac(head[2], gs), Frac(gs - 1 - head[1], gs),
           Frac(gs - 1 - head[2], gs), Frac(head[1], gs),
           Frac(Len(e.snake), gs * gs),
           flood_ratio,
           flood_dir(sd), flood_dir(rd), flood_dir(ld),
           Frac(Sign(tail[1] - head[1]), 1), Frac(Sign(tail[2] - head[2]), 1) >>

\* The place of flood_ratio in the vector (1-based).
FloodRatioAt == 23

----------------------------------------------------------------------------
\* The network (src/src/nn.rs).  Its numbers are f32 values; the model keeps
\* them in fixed point and rounds every product to the nearest unit:
\*   inputs, activations, outputs, targets and gradients in thousandths,
\*   weights and biases in millionths,
\*   the learning rate in units of 1e-11 (RateUnits of them in a millionth).
\* A feature n / d becomes the nearest thousandth of the quotient.
Thousand == 1000
RateUnits == 100000

Max(a, b) == IF a >= b THEN a ELSE b
RoundDiv(n, d) == (2 * n + d) \div (2 * d)

\* a * b for two numbers in thousandths.
Times(a, b) == RoundDiv(a * b, Thousand)

\* a * w for a in thousandths and a weight w in millionths, in thousandths.
TimesWeight(a, w) ==
    RoundDiv(a * (w \div Thousand) + RoundDiv(a * (w % Thousand), Thousand),
             Thousand)

RECURSIVE Sum(_)
Sum(s) == IF s = <<>> THEN 0 ELSE Head(s) + Sum(Tail(s))

RECURSIVE Flatten(_)
Flatten(rows) == IF rows = <<>> THEN <<>>
                                ELSE Head(rows) \o Flatten(Tail(rows))

RECURSIVE Pow10(_)
Pow10(k) == IF k = 0 THEN 1 ELSE 10 * Pow10(k - 1)

Zeros(n) == [i \in 1 .. n |-> 0]

\* The widths of the two hidden layers (256 and 64 in the program).
HIDDEN1 == 2
HIDDEN2 == 2

\* DenseLayer::new draws every weight from [-limit, limit) with
\* limit = sqrt(6 / (in_size + out_size)); the model draws the whole matrix
\* from WeightDraws patterns of multiples of 0.125 between -0.25 and 0.25,
\* which lie inside the limit of every layer.
WeightDraws == 1
Eighth == 125000

DrawWeights(draw, in_size, out_size) ==
    [k \in 1 .. in_size * out_size |->
        ((((k + draw) * (k + draw) * 7 + k * 3 + draw) % 5) - 2) * Eighth]

DenseLayer(in_size, out_size, relu, weights) ==
    [weights |-> weights, biases |-> Zeros(out_size), relu |-> relu,
     in_size |-> in_size, out_size |-> out_size,
     m_w |-> Zeros(in_size * out_size), v_w |-> Zeros(in_size * out_size),
     m_b |-> Zeros(out_size), v_b |-> Zeros(out_size)]

\* Network::new, for one draw of the weights: the layers of draw d take the
\* patterns 4 d, 4 d + 1 and 4 d + 2.
NewNetwork(draw) ==
    [layers |-> << DenseLayer(INPUT_SIZE, HIDDEN1, TRUE,
                              DrawWeights(4 * draw, INPUT_SIZE, HIDDEN1)),
                   DenseLayer(HIDDEN1, HIDDEN2, TRUE,
                              DrawWeights(4 * draw + 1, HIDDEN1, HIDDEN2)),
                   DenseLayer(HIDDEN2, OUTPUT_SIZE, FALSE,
                              DrawWeights(4 * draw + 2, HIDDEN2, OUTPUT_SIZE)) >>,
     t |-> 0]

\* The pre-activation sum of output j (1-based) over the in_size numbers of
\* input that follow position base: the code indexes input[i] for i below
\* in_size and never looks at the length of input, so a longer input loses
\* its tail and a shorter one makes the index panic.
unit_sum(l, input, base, j) ==
    RoundDiv(l.biases[j], Thousand)
    + Sum([i \in 1 .. l.in_size |->
             TimesWeight(input[base + i], l.weights[(i - 1) * l.out_size + j])])

activate(l, sum) == IF l.relu THEN Max(sum, 0) ELSE sum

forward_single(l, input) ==
    [j \in 1 .. l.out_size |-> activate(l, unit_sum(l, input, 0, j))]

\* (z, a) flattened as bs * out_size numbers each.
forward_batch(l, input, bs) ==
    LET row(k) == (k - 1) \div l.out_size
        col(k) == ((k - 1) % l.out_size) + 1
    IN  Bind([k \in 1 .. bs * l.out_size |->
                 unit_sum(l, input, row(k) * l.in_size, col(k))],
             LAMBDA z :
               [z |-> z,
                a |-> [k \in 1 .. bs * l.out_size |-> activate(l, z[k])]])

forward(net, input) ==
    Bind(forward_single(net.layers[1], input), LAMBDA buf1 :
    Bind(forward_single(net.layers[2], buf1), LAMBDA buf2 :
    forward_single(net.layers[3], buf2)))

predict_batch(net, inputs) ==
    [b \in 1 .. Len(inputs) |-> forward(net, inputs[b])]

\* A^T @ B / bs for A of bs rows of m numbers and B of bs rows of n numbers.
matmul_at_b(a, b, m, n, bs) ==
    [k \in 1 .. m * n |->
        LET i == (k - 1) \div n
            j == (k - 1) % n
        IN  RoundDiv(Sum([s \in 1 .. bs |->
                Times(a[(s - 1) * m + i + 1], b[(s - 1) * n + j + 1])]), bs)]

\* A @ W^T for A of bs rows of out_size numbers and the weights W.
matmul_a_bt(a, w, out_size, in_size, bs) ==
    [k \in 1 .. bs * in_size |->
        LET b == (k - 1) \div in_size
            i == (k - 1) % in_size
        IN  Sum([j \in 1 .. out_size |->
                TimesWeight(a[b * out_size + j], w[i * out_size + j])])]

sum_cols(data, cols, bs) ==
    [j \in 1 .. cols |->
        RoundDiv(Sum([b \in 1 .. bs |-> data[(b - 1) * cols + j]]), bs)]

\* relu'(z) applied to a delta.
relu_mask(d, z) == [i \in 1 .. Len(d) |-> IF z[i] <= 0 THEN 0 ELSE d[i]]

\* One Adam step of a parameter vector.  The first moment after t steps is
\* kept as m * 10^t, which is exact: m' = 0.9 m + 0.1 g.  The second moment
\* is kept as 0 (never a gradient) or 1 (positive).  The parameter moves
\* against the sign of the first moment by the learning rate: the factor
\* |mh| / (sqrt(vh) + eps), which is 1 on the first step, is taken as 1.
adam_moment1(m, g, t) == [i \in 1 .. Len(m) |-> 9 * m[i] + Pow10(t - 1) * g[i]]
adam_moment2(v, g) ==
    [i \in 1 .. Len(v) |-> IF v[i] > 0 \/ g[i] # 0 THEN 1 ELSE 0]
adam_move(p, m, lr) ==
    [i \in 1 .. Len(p) |-> p[i] - Sign(m[i]) * RoundDiv(lr, RateUnits)]

adam_update(l, gw, gb, lr, t) ==
    Bind(adam_moment1(l.m_w, gw, t), LAMBDA m_w :
    Bind(adam_moment1(l.m_b, gb, t), LAMBDA m_b :
      [l EXCEPT !.m_w = m_w,
                !.v_w = adam_moment2(l.v_w, gw),
                !.weights = adam_move(l.weights, m_w, lr),
                !.m_b = m_b,
                !.v_b = adam_moment2(l.v_b, gb),
                !.biases = adam_move(l.biases, m_b, lr)]))

\* The forward pass of train_batch over the flattened batch: z and a of
\* every layer, each bs rows flattened.
batch_forward(net, flat_in, bs) ==
    Bind(forward_batch(net.layers[1], flat_in, bs), LAMBDA f0 :
    Bind(forward_batch(net.layers[2], f0.a, bs), LAMBDA f1 :
    Bind(forward_batch(net.layers[3], f1.a, bs), LAMBDA f2 :
      [z0 |-> f0.z, a0 |-> f0.a, z1 |-> f1.z, a1 |-> f1.a, a2 |-> f2.a])))

\* dL/dz2 = (a2 - target) * 2 / OUTPUT_SIZE.
output_delta(a2, targets, bs) ==
    [k \in 1 .. bs * OUTPUT_SIZE |->
        RoundDiv((a2[k] - targets[(k - 1) \div OUTPUT_SIZE + 1]
                                 [((k - 1) % OUTPUT_SIZE) + 1]) * 2,
                 OUTPUT_SIZE)]

\* The gradients of one layer: gw = input^T @ dz / bs and gb = sum(dz) / bs.
gradients(l, input, dz, bs) ==
    [gw |-> matmul_at_b(input, dz, l.in_size, l.out_size, bs),
     gb |-> sum_cols(dz, l.out_size, bs)]

\* The delta handed to the layer below: dz @ W^T under relu'(z).
back(l, dz, z, bs) ==
    Bind(matmul_a_bt(dz, l.weights, l.out_size, l.in_size, bs),
         LAMBDA d : relu_mask(d, z))

train_batch(net, inputs, targets, lr) ==
    LET t == net.t + 1
        bs == Len(inputs)
        l0 == net.layers[1]
        l1 == net.layers[2]
        l2 == net.layers[3]
    IN  Bind(Flatten(inputs), LAMBDA flat_in :
        Bind(batch_forward(net, flat_in, bs), LAMBDA f :
        Bind(output_delta(f.a2, targets, bs), LAMBDA dz :
        Bind(gradients(l2, f.a1, dz, bs), LAMBDA g2 :
        Bind(back(l2, dz, f.z1, bs), LAMBDA dz1 :
        Bind(gradients(l1, f.a0, dz1, bs), LAMBDA g1 :
        Bind(back(l1, dz1, f.z0, bs), LAMBDA dz0 :
        Bind(gradients(l0, flat_in, dz0, bs), LAMBDA g0 :
          [layers |-> << adam_update(l0, g0.gw, g0.gb, lr, t),
                         adam_update(l1, g1.gw, g1.gb, lr, t),
                         adam_update(l2, g2.gw, g2.gb, lr, t) >>,
           t |-> t]))))))))

\* clone_weights as a plain copy of the network, moments and t included.
clone_weights_copies_all(net) == net

clone_layer(l) ==
    [weights |-> l.weights, biases |-> l.biases, relu |-> l.relu,
     in_size |-> l.in_size, out_size |-> l.out_size,
     m_w |-> Zeros(Len(l.m_w)), v_w |-> Zeros(Len(l.v_w)),
     m_b |-> Zeros(Len(l.m_b)), v_b |-> Zeros(Len(l.v_b))]

clone_weights(net) ==
    [layers |-> [i \in 1 .. Len(net.layers) |-> clone_layer(net.layers[i])],
     t |-> 0]

\* target = tau * source + (1 - tau) * target on every weight and bias, for
\* tau in thousandths.
blend(source, target, tau) ==
    [i \in 1 .. Len(target) |->
        RoundDiv(tau * source[i] + (Thousand - tau) * target[i], Thousand)]

soft_update_into(net, target, tau) ==
    [target EXCEPT !.layers =
        [i \in 1 .. Len(target.layers) |->
            [target.layers[i] EXCEPT
                !.weights = blend(net.layers[i].weights, @, tau),
                !.biases = blend(net.layers[i].biases, @, tau)]]]

----------------------------------------------------------------------------
\* The agent (src/src/agent.rs).  epsilon is kept in millionths, the learning
\* rate in units of 1e-11, gamma, tau and epsilon_decay in thousandths,
\* lr_decay in millionths.

\* buffer_size, batch_size and train_every of DQNAgent::new (50_000, 64 and 4
\* in the program), scaled down so that the buffer fills and overflows, that
\* a training call finds fewer than batch_size experiences and that a later
\* one finds enough.
BufferSize == 3
BatchSize == 3
TrainEvery == 2

\* gen_range(0..buf_len) of train draws among the first SampleDraws places
\* of the replay buffer.
SampleDraws == 1

GAMMA == 990
EPSILON_START == 1000000
EPSILON_MIN == 10000
EPSILON_DECAY == 998
LEARNING_RATE == 100000000
LR_MIN == 10000000
LR_DECAY == 999995
TAU == 1
Million == 1000000

\* DQNAgent::new, for one draw of the weights of the network.
NewAgent(draw) ==
    LET network == NewNetwork(draw)
    IN  [network |-> network,
         target_network |-> clone_weights(network),
         replay_buffer |-> <<>>,
         buffer_size |-> BufferSize,
         batch_size |-> BatchSize,
         gamma |-> GAMMA,
         epsilon |-> EPSILON_START,
         epsilon_min |-> EPSILON_MIN,
         epsilon_decay |-> EPSILON_DECAY,
         learning_rate |-> LEARNING_RATE,
         lr_min |-> LR_MIN,
         lr_decay |-> LR_DECAY,
         tau |-> TAU,
         train_every |-> TrainEvery,
         step_count |-> 0]

\* Iterator::max_by over the enumerated q: the fold keeps the element it
\* holds only when it compares Greater, so of equal maxima the last one
\* stays.  best and i are 1-based positions.
RECURSIVE max_by(_, _, _)
max_by(q, best, i) ==
    IF i > Len(q) THEN best
    ELSE max_by(q, IF q[best] > q[i] THEN best ELSE i, i + 1)

\* act_greedy: the 0-based index max_by returns.
act_greedy(a, features) == max_by(forward(a.network, features), 1, 2) - 1

\* act that decays epsilon whenever it explores.
act_outcomes_decaying(a, features) ==
    {[agent |-> [a EXCEPT !.epsilon = RoundDiv(a.epsilon * a.epsilon_decay,
                                               Thousand)],
      action |-> x, greedy |-> FALSE] :
        x \in IF a.epsilon > 0 THEN ActionIndex ELSE {}}
    \cup
    {[agent |-> a, action |-> max_by(forward(a.network, features), 1, 2) - 1,
      greedy |-> TRUE] :
        x \in IF a.epsilon < Million THEN {0} ELSE {}}

\* act: rng.gen::<f32>() is a draw from [0, 1); the draw can be below epsilon
\* when epsilon is positive and can be at or above it when epsilon is below
\* 1.  Every outcome is the agent after the call, the action returned and
\* the branch taken.
act_outcomes(a, features) ==
    {[agent |-> a, action |-> x, greedy |-> FALSE] :
        x \in IF a.epsilon > 0 THEN ActionIndex ELSE {}}
    \cup
    {[agent |-> a, action |-> act_greedy(a, features), greedy |-> TRUE] :
        x \in IF a.epsilon < Million THEN {0} ELSE {}}

\* remember with pop_back in the place of pop_front.
remember_evicts_newest(a, exp) ==
    LET kept == IF Len(a.replay_buffer) >= a.buffer_size
                  THEN SubSeq(a.replay_buffer, 1, Len(a.replay_buffer) - 1)
                  ELSE a.replay_buffer
    IN  [a EXCEPT !.replay_buffer = Append(kept, exp)]

remember(a, exp) ==
    LET kept == IF Len(a.replay_buffer) >= a.buffer_size
                  THEN Tail(a.replay_buffer)
                  ELSE a.replay_buffer
    IN  [a EXCEPT !.replay_buffer = Append(kept, exp)]

\* The target of plain DQN: the primary network values its own best action.
td_target_single_network(a, exp, main_next_q, target_next_q) ==
    IF exp.done
      THEN exp.reward * (Thousand \div 2)
      ELSE exp.reward * (Thousand \div 2)
           + Times(a.gamma, main_next_q[max_by(main_next_q, 1, 2)])

\* The column of a row of targets that train overwrites.
td_target(a, exp, main_next_q, target_next_q) ==
    IF exp.done
      THEN exp.reward * (Thousand \div 2)
      ELSE exp.reward * (Thousand \div 2)
           + Times(a.gamma, target_next_q[max_by(main_next_q, 1, 2)])

\* The decay of the learning rate without the clamp.
decay_lr_unclamped(a) ==
    IF a.learning_rate > a.lr_min
      THEN a.learning_rate
           - RoundDiv((Million - a.lr_decay) * a.learning_rate, Million)
      ELSE a.learning_rate

\* learning_rate * lr_decay, clamped at lr_min; the product is taken as
\* learning_rate - (1 - lr_decay) * learning_rate.
decay_lr(a) ==
    IF a.learning_rate > a.lr_min
      THEN Max(a.learning_rate
               - RoundDiv((Million - a.lr_decay) * a.learning_rate, Million),
               a.lr_min)
      ELSE a.learning_rate

\* train for one draw of the indices (0-based, as the code draws them).  The
\* outcome carries the agent after the call, whether an update happened, the
\* indices, the batch handed to train_batch and the network train_batch left
\* before the target network was blended.
train_with(a, indices) ==
    Bind([k \in 1 .. a.batch_size |-> a.replay_buffer[indices[k] + 1]],
         LAMBDA exps :
    Bind([k \in 1 .. a.batch_size |-> exps[k].state], LAMBDA states :
    Bind([k \in 1 .. a.batch_size |-> exps[k].next_state],
         LAMBDA next_states :
    Bind(predict_batch(a.network, states), LAMBDA current_qs :
    Bind(predict_batch(a.network, next_states), LAMBDA main_next_qs :
    Bind(predict_batch(a.target_network, next_states),
         LAMBDA target_next_qs :
    Bind([k \in 1 .. a.batch_size |->
             [current_qs[k] EXCEPT ![exps[k].action + 1] =
                 td_target(a, exps[k], main_next_qs[k], target_next_qs[k])]],
         LAMBDA targets :
    Bind(train_batch(a.network, states, targets, a.learning_rate),
         LAMBDA trained :
      [agent |-> [a EXCEPT !.network = trained,
                           !.target_network =
                               soft_update_into(trained, a.target_network,
                                                a.tau),
                           !.learning_rate = decay_lr(a)],
       updated |-> TRUE,
       indices |-> indices,
       states |-> states,
       targets |-> targets,
       trained |-> trained]))))))))

Skipped(a) == [agent |-> a, updated |-> FALSE, indices |-> <<>>,
               states |-> <<>>, targets |-> <<>>, trained |-> a.network]

train(a) ==
    IF Len(a.replay_buffer) < a.batch_size
      THEN {Skipped(a)}
      ELSE {train_with(a, indices) :
               indices \in [1 .. a.batch_size ->
                               {i \in 0 .. (Len(a.replay_buffer) - 1) :
                                   i < SampleDraws}]}

\* step_and_train without the test of train_every.
step_and_train_every_call(a) ==
    train([a EXCEPT !.step_count = a.step_count + 1])

step_and_train(a) ==
    LET counted == [a EXCEPT !.step_count = a.step_count + 1]
    IN  IF counted.step_count % counted.train_every # 0
          THEN {Skipped(counted)}
          ELSE train(counted)

decay_epsilon(a) ==
    IF a.epsilon > a.epsilon_min
      THEN [a EXCEPT !.epsilon = RoundDiv(a.epsilon * a.epsilon_decay,
                                          Thousand)]
      ELSE a

end_episode(a) == decay_epsilon(a)

\* The vector of f32 values extract_features returns, in thousandths.
feature_values(e) ==
    LET f == extract_features(e)
    IN  [i \in 1 .. Len(f) |-> RoundDiv(Thousand * f[i][1], f[i][2])]

----------------------------------------------------------------------------
\* The struct SnakeEngine::new builds before it calls reset.
Fresh(gs) == [grid_size |-> gs, snake |-> <<>>, direction |-> "Right",
              food |-> <<0, 0>>, score |-> 0, game_over |-> FALSE,
              steps_without_food |-> 0]

\* op, action, reward, done and pre record the last call: which method, the
\* action passed, the pair step returned, and the engine the call found (for
\* reset only its game_over flag).
Install(e) ==
    /\ grid_size' = e.grid_size
    /\ snake' = e.snake
    /\ direction' = e.direction
    /\ food' = e.food
    /\ score' = e.score
    /\ game_over' = e.game_over
    /\ steps_without_food' = e.steps_without_food

\* The engine SnakeEngine::new(gs) returns.
NewEngine(gs) ==
    \E e \in reset_outcomes(Fresh(gs)) :
        /\ grid_size = e.grid_size
        /\ snake = e.snake
        /\ direction = e.direction
        /\ food = e.food
        /\ score = e.score
        /\ game_over = e.game_over
        /\ steps_without_food = e.steps_without_food
        /\ op = "new"
        /\ action = 0
        /\ reward = 0
        /\ done = FALSE
        /\ pre = [game_over |-> FALSE]

\* No trainer: the engine is explored on its own.
NoTrainer ==
    /\ agent = <<>>
    /\ pc = "engine"
    /\ state = <<>>
    /\ next_state = <<>>
    /\ chosen = 0
    /\ call = [op |-> "none"]
    /\ log = <<>>

InitEngine(gs) == NewEngine(gs) /\ NoTrainer

Init == InitEngine(GridSize)

engine_reset ==
    \E e \in reset_outcomes(Self) :
        /\ Install(e)
        /\ op' = "reset"
        /\ pre' = [game_over |-> game_over]
        /\ UNCHANGED <<action, reward, done>>

engine_step(a) ==
    \E r \in step_outcomes(Self, a) :
        /\ Install(r[1])
        /\ op' = "step"
        /\ action' = a
        /\ reward' = r[2]
        /\ done' = r[1].game_over
        /\ pre' = Self

reset == engine_reset /\ UNCHANGED trainer

step(a) == engine_step(a) /\ UNCHANGED trainer

Next == reset \/ \E a \in ActionIndex : step(a)

Spec == Init /\ [][Next]_vars

\* A second exploration on a board large enough for a three-cell snake to be
\* below the 15% mark of the reward shaping (5 * 5 * 0.15 = 3.75): every
\* episode is followed for ShortSteps moves after the last meal and up to
\* ShortMeals meals, and reset is called as the trainer's loop calls it, on a
\* finished episode.
ShortGrid == 5
ShortSteps == 3
ShortMeals == 2

InitShort == InitEngine(ShortGrid)

NextShort ==
    \/ game_over /\ reset
    \/ \E a \in ActionIndex :
          /\ steps_without_food < ShortSteps
          /\ score < ScoreStep * ShortMeals
          /\ step(a)

SpecShort == InitShort /\ [][NextShort]_vars

\* The training loop of main (src/src/main.rs): the agent and the engine are
\* built, and every episode resets the engine and then repeats act, step,
\* extract_features, remember and step_and_train until step reports done;
\* end_episode closes the episode.  pc is the call the loop makes next.  The
\* loop is followed for MaxSteps moves of the snake over all episodes, on a
\* board of side TrainGrid (20 in the program), and an exploring act draws
\* one of the first ExploreDraws actions.
TrainGrid == 2
MaxSteps == 6
ExploreDraws == 2

played == <<grid_size, snake, direction, food, score, game_over,
            steps_without_food, op, action, reward, done, pre>>

InitTrain ==
    /\ NewEngine(TrainGrid)
    /\ \E draw \in 0 .. (WeightDraws - 1) : agent = NewAgent(draw)
    /\ pc = "reset"
    /\ state = <<>>
    /\ next_state = <<>>
    /\ chosen = 0
    /\ call = [op |-> "new"]
    /\ log = <<>>

main_reset ==
    /\ pc = "reset"
    /\ agent.step_count < MaxSteps
    /\ engine_reset
    /\ state' = feature_values(Self')
    /\ pc' = "act"
    /\ UNCHANGED <<agent, next_state, chosen, call, log>>

main_act ==
    /\ pc = "act"
    /\ agent.step_count < MaxSteps
    /\ \E r \in act_outcomes(agent, state) :
          /\ r.greedy \/ r.action < ExploreDraws
          /\ agent' = r.agent
          /\ chosen' = r.action
          /\ call' = [op |-> "act", pre |-> agent, greedy |-> r.greedy]
    /\ pc' = "step"
    /\ UNCHANGED <<played, state, next_state, log>>

main_step ==
    /\ pc = "step"
    /\ engine_step(chosen)
    /\ next_state' = feature_values(Self')
    /\ pc' = "remember"
    /\ UNCHANGED <<agent, state, chosen, call, log>>

main_remember ==
    LET exp == [state |-> state, action |-> chosen, reward |-> reward,
                next_state |-> next_state, done |-> done]
    IN  /\ pc = "remember"
        /\ agent' = remember(agent, exp)
        /\ log' = Append(log, exp)
        /\ call' = [op |-> "remember", pre |-> agent]
        /\ pc' = "train"
        /\ UNCHANGED <<played, state, next_state, chosen>>

main_train ==
    /\ pc = "train"
    /\ \E r \in step_and_train(agent) :
          /\ agent' = r.agent
          /\ call' = [op |-> "step_and_train", pre |-> agent,
                      updated |-> r.updated, indices |-> r.indices,
                      states |-> r.states, targets |-> r.targets,
                      trained |-> r.trained]
    /\ state' = next_state
    /\ pc' = IF done THEN "end_episode" ELSE "act"
    /\ UNCHANGED <<played, next_state, chosen, log>>

main_end_episode ==
    /\ pc = "end_episode"
    /\ agent' = end_episode(agent)
    /\ call' = [op |-> "end_episode", pre |-> agent]
    /\ pc' = "reset"
    /\ UNCHANGED <<played, state, next_state, chosen, log>>

NextTrain ==
    \/ main_reset
    \/ main_act
    \/ main_step
    \/ main_remember
    \/ main_train
    \/ main_end_episode

SpecTrain == InitTrain /\ [][NextTrain]_vars

\* The exploration rate over a long training run: nothing but end_episode
\* writes epsilon, so the episodes between two calls of end_episode are left
\* out and the calls follow one another.
InitDecay ==
    /\ NewEngine(TrainGrid)
    /\ \E draw \in 0 .. (WeightDraws - 1) : agent = NewAgent(draw)
    /\ pc = "end_episode"
    /\ state = <<>>
    /\ next_state = <<>>
    /\ chosen = 0
    /\ call = [op |-> "new"]
    /\ log = <<>>

NextDecay ==
    /\ agent' = end_episode(agent)
    /\ call' = [op |-> "end_episode", pre |-> agent]
    /\ UNCHANGED <<played, pc, state, next_state, chosen, log>>

SpecDecay == InitDecay /\ [][NextDecay]_vars

\* The learning rate over a long training run: nothing but the last
\* statement of train writes learning_rate, and that statement reads only
\* learning_rate, lr_min and lr_decay, so the rest of an update and the calls
\* between two updates are left out and the decays follow one another;
\* call.updates counts them.  The run starts at the fresh agent and, to have
\* the last updates above lr_min close at hand, also after LateUpdates
\* updates, where the learning rate is LateRate: the run from the fresh
\* agent passes through that state.
LateUpdates == 460300
LateRate == 10011125

InitRate ==
    /\ NewEngine(TrainGrid)
    /\ \E draw \in 0 .. (WeightDraws - 1) :
          \/ /\ agent = NewAgent(draw)
             /\ call = [op |-> "new", updates |-> 0]
          \/ /\ agent = [NewAgent(draw) EXCEPT !.learning_rate = LateRate]
             /\ call = [op |-> "new", updates |-> LateUpdates]
    /\ pc = "train"
    /\ state = <<>>
    /\ next_state = <<>>
    /\ chosen = 0
    /\ log = <<>>

NextRate ==
    /\ IF call.op = "new"
         THEN TRUE
         ELSE call.pre.learning_rate > agent.lr_min
    /\ agent' = [agent EXCEPT !.learning_rate = decay_lr(agent)]
    /\ call' = [op |-> "train", pre |-> agent, updates |-> call.updates + 1]
    /\ UNCHANGED <<played, pc, state, next_state, chosen, log>>

SpecRate == InitRate /\ [][NextRate]_vars

\* The episodes of the training loop as the engine sees them (main.rs): every
\* episode calls reset and then step until step reports done, and
\* end_episode follows.  The agent is left out: act may return any of the
\* four actions, and act, extract_features, remember and step_and_train
\* return without touching the engine.  pc is the call the loop makes next.
\* Each call returns and the loop goes on to the next one, which is the weak
\* fairness of the loop's step.
InitEpisode ==
    /\ NewEngine(GridSize)
    /\ agent = <<>>
    /\ pc = "reset"
    /\ state = <<>>
    /\ next_state = <<>>
    /\ chosen = 0
    /\ call = [op |-> "new"]
    /\ log = <<>>

episode_reset ==
    /\ pc = "reset"
    /\ engine_reset
    /\ pc' = "step"
    /\ UNCHANGED <<agent, state, next_state, chosen, call, log>>

episode_step ==
    /\ pc = "step"
    /\ \E a \in ActionIndex : engine_step(a)
    /\ pc' = IF done' THEN "end_episode" ELSE "step"
    /\ UNCHANGED <<agent, state, next_state, chosen, call, log>>

episode_end ==
    /\ pc = "end_episode"
    /\ pc' = "reset"
    /\ call' = [op |-> "end_episode"]
    /\ UNCHANGED <<played, agent, state, next_state, chosen, log>>

NextEpisode ==
    \/ episode_reset
    \/ episode_step
    \/ episode_end

SpecEpisode == InitEpisode /\ [][NextEpisode]_vars /\ WF_vars(NextEpisode)

----------------------------------------------------------------------------
\* Vocabulary of the properties: the last call was step(action) on the
\* engine pre.

Stepped == op = "step"
SteppedRunning == op = "step" /\ ~pre.game_over
Requested == ACTION_TABLE[action + 1]
IsReversal == Requested = opposite(pre.direction)
HeadingUsed == IF IsReversal THEN pre.direction ELSE Requested
NewHead == <<pre.snake[1][1] + delta(HeadingUsed)[1],
             pre.snake[1][2] + delta(HeadingUsed)[2]>>
LeavesGrid == NewHead \notin GridCells(grid_size)
BitesBody == NewHead \in Cells(pre.snake)
Collides == LeavesGrid \/ BitesBody
OnFood == NewHead = pre.food
BoardFull == GridCells(grid_size) \subseteq Cells(snake)
Limit == grid_size * grid_size

\* C1: a step of a running engine whose new head leaves the grid or lands on
\* any body cell, the tail cell included, sets game_over and returns
\* (-10, true).
C1_CollisionEndsEpisode ==
    (SteppedRunning /\ Collides) =>
        (game_over /\ reward = TerminalReward /\ done)

\* C1 witness: a running snake moved its head onto its own tail cell.
C1_Witness_BitesTail ==
    /\ SteppedRunning
    /\ NewHead = pre.snake[Len(pre.snake)]
    /\ game_over
    /\ reward = TerminalReward

\* C2 (as claimed): a step of a terminal engine returns (-10, true) and
\* changes nothing: body, heading, food, score and starvation counter stay.
C2_TerminalStepIsNoOp ==
    (Stepped /\ pre.game_over) =>
        /\ reward = TerminalReward
        /\ done
        /\ snake = pre.snake
        /\ direction = pre.direction
        /\ food = pre.food
        /\ score = pre.score
        /\ steps_without_food = pre.steps_without_food

\* C3: the snake body holds no cell twice.
C3_NoDuplicateCells ==
    \A i, j \in 1 .. Len(snake) : i # j => snake[i] # snake[j]

\* C3 witness: a snake of five or more cells ran into a body cell other than
\* its tail, and the episode ended with the body as it was.
C3_Witness_SelfCollision ==
    /\ SteppedRunning
    /\ Len(pre.snake) >= 5
    /\ BitesBody
    /\ NewHead # pre.snake[Len(pre.snake)]
    /\ game_over
    /\ snake = pre.snake

\* C4 (as claimed): in every reachable state, terminal ones included, the
\* head is the second cell moved one step in the current heading.
C4_HeadFollowsHeading ==
    /\ snake[1][1] - snake[2][1] = delta(direction)[1]
    /\ snake[1][2] - snake[2][2] = delta(direction)[2]

\* C5 (as claimed): the food cell is never one of the snake's body cells.
C5_FoodNeverInBody == food \notin Cells(snake)

\* C5 (amended): while at least one grid cell is free of the snake, the food
\* cell is not a body cell.  (On a full board spawn_food falls back to (0,0),
\* which the snake covers.)
C5_FoodOutsideBodyUnlessFull ==
    ~BoardFull => food \notin Cells(snake)

\* C5 witness: the snake has just eaten and left exactly one grid cell free,
\* and the new food lies on it.
C5_Witness_OneCellFree ==
    /\ SteppedRunning
    /\ OnFood
    /\ Len(snake) = Len(pre.snake) + 1
    /\ Cardinality(GridCells(grid_size) \ Cells(snake)) = 1
    /\ food \notin Cells(snake)

\* C6 (as claimed): a step of a running engine whose new head is the food
\* cell adds 10 to the score, grows the snake by the new head, zeroes the
\* starvation counter and puts the new food outside the grown body.
C6_EatingGrowsAndRespawnsOutside ==
    (SteppedRunning /\ OnFood) =>
        /\ score = pre.score + 10
        /\ snake = <<NewHead>> \o pre.snake
        /\ steps_without_food = 0
        /\ food \notin Cells(snake)

\* C6 (amended): when the new head is the food cell and the move does not
\* collide, the step adds 10 to the score, grows the snake by the new head,
\* zeroes the starvation counter, and puts the new food outside the grown
\* body unless the grown body fills the board, in which case the food is (0,0).
C6_EatingGrowsAndRespawns ==
    (SteppedRunning /\ OnFood /\ ~Collides) =>
        /\ score = pre.score + 10
        /\ snake = <<NewHead>> \o pre.snake
        /\ steps_without_food = 0
        /\ ~game_over
        /\ IF BoardFull THEN food = <<0, 0>>
                        ELSE food \in GridCells(grid_size) \ Cells(snake)

\* C6 witness: a snake that had gone some steps without food ate, with free
\* cells left for the new food.
C6_Witness_AteAfterHunger ==
    /\ SteppedRunning
    /\ OnFood
    /\ ~Collides
    /\ pre.steps_without_food >= 2
    /\ steps_without_food = 0
    /\ Len(snake) = Len(pre.snake) + 1
    /\ ~BoardFull

\* C7: a step of a running engine keeps the heading when the action is the
\* reverse of it, and the snake then advances in that prior heading; any
\* other action becomes the heading, and the move is made in it.
C7_ReversalIgnored ==
    SteppedRunning =>
        /\ IsReversal => direction = pre.direction
        /\ ~IsReversal => direction = Requested
        /\ ~Collides =>
              /\ snake[1][1] = pre.snake[1][1] + delta(direction)[1]
              /\ snake[1][2] = pre.snake[1][2] + delta(direction)[2]
              /\ snake[2] = pre.snake[1]

\* C7 witness: the reverse of the heading was requested and the snake moved
\* on in its prior heading.
C7_Witness_ReversalRequested ==
    /\ SteppedRunning
    /\ IsReversal
    /\ ~game_over
    /\ direction = pre.direction
    /\ snake[2] = pre.snake[1]

\* C8: a running engine's starvation counter is at most N*N; a step that
\* neither collides nor eats ends the episode with reward -10 exactly when
\* it raises the counter above N*N.
C8_StarvationEndsEpisode ==
    /\ ~game_over => steps_without_food <= Limit
    /\ (SteppedRunning /\ ~Collides /\ ~OnFood) =>
          /\ steps_without_food = pre.steps_without_food + 1
          /\ game_over <=> (pre.steps_without_food + 1 > Limit)
          /\ game_over => (reward = TerminalReward /\ done)

\* C8 witness: the episode ended by starvation, without a collision.
C8_Witness_Starved ==
    /\ SteppedRunning
    /\ ~Collides
    /\ ~OnFood
    /\ pre.steps_without_food = Limit
    /\ game_over
    /\ reward = TerminalReward

\* C9: reset leaves a running engine: the three-cell body at mid = N div 2,
\* heading Right, score 0, starvation counter 0, food outside the body.
C9_ResetState ==
    (op = "reset") =>
        LET mid == grid_size \div 2
        IN  /\ snake = <<<<mid, mid>>, <<mid - 1, mid>>, <<mid - 2, mid>>>>
            /\ direction = "Right"
            /\ score = 0
            /\ steps_without_food = 0
            /\ ~game_over
            /\ food \in GridCells(grid_size)
            /\ food \notin Cells(snake)

\* C9 witness: reset was called on a terminal engine.
C9_Witness_ResetAfterGameOver ==
    /\ op = "reset"
    /\ pre.game_over
    /\ ~game_over

\* The calls after which food is the cell spawn_food has just returned.
JustSpawned ==
    \/ op = "new"
    \/ op = "reset"
    \/ SteppedRunning /\ OnFood /\ ~Collides

\* C10: the cell spawn_food returns is a grid cell outside the body while a
\* cell is free, and (0,0) when the body fills the board; the step that eats
\* the last free cell completes as any eating step does.
C10_SpawnFoodFallback ==
    JustSpawned =>
        /\ ~BoardFull => food \in GridCells(grid_size) \ Cells(snake)
        /\ BoardFull =>
              /\ food = <<0, 0>>
              /\ ~game_over
              /\ reward = FoodReward
              /\ ~done
              /\ score = pre.score + 10

\* C10 witness: the snake ate the last free cell and the food fell back to
\* (0,0).
C10_Witness_AteLastFreeCell ==
    /\ SteppedRunning
    /\ OnFood
    /\ Len(snake) = grid_size * grid_size
    /\ BoardFull
    /\ food = <<0, 0>>
    /\ ~game_over

\* The snake covers at most 15% of the board.
BelowSafetyMark == 100 * Len(snake) <= 15 * (grid_size * grid_size)

\* C11: a step that leaves the engine running with a snake of at most 15% of
\* the grid area returns +10 when it ate, else +1 when the new head is
\* strictly closer (Manhattan) to the food than the old head was, else -1;
\* nothing is added for safety.
C11_ShortSnakeReward ==
    (SteppedRunning /\ ~game_over /\ BelowSafetyMark) =>
        reward = IF score > pre.score THEN 20
                 ELSE IF Manhattan(snake[1], food)
                           < Manhattan(pre.snake[1], pre.food) THEN 2
                 ELSE -2

\* C11 witness: a three-cell snake on the 5 x 5 board moved away from the
\* food, with its tail still reachable (the safety term would have added
\* +0.5), and got exactly -1.
C11_Witness_ShortSnakeMovedAway ==
    /\ SteppedRunning
    /\ ~game_over
    /\ BelowSafetyMark
    /\ score = pre.score
    /\ Manhattan(snake[1], food) > Manhattan(pre.snake[1], pre.food)
    /\ can_reach_tail(Self)
    /\ reward = -2

\* The feature vector of the current engine, as the trainer takes it after
\* reset and after every step.
Features == extract_features(Self)
FloodRatio == Features[FloodRatioAt]
FreeNeighbours ==
    {n \in Neighbours(snake[1]) :
        n \in GridCells(grid_size) /\ n \notin Cells(snake)}

\* C16 (as claimed): the feature vector is as long as the input width the
\* network is built with, so the input layer reads every feature.
C16_FeatureLengthIsInputWidth == Len(Features) = INPUT_SIZE

\* C18 (as claimed): the flood-fill ratio lies in [0,1], is 0 exactly when
\* no neighbour of the head is free, and is positive otherwise.
C18_FloodRatioTellsFreeNeighbours ==
    /\ FloodRatio[2] > 0
    /\ 0 <= FloodRatio[1]
    /\ FloodRatio[1] <= FloodRatio[2]
    /\ (FloodRatio[1] = 0) <=> (FreeNeighbours = {})

----------------------------------------------------------------------------
\* Vocabulary of the properties of the agent: the last call on the agent was
\* call.op, made on the agent call.pre.
Remembered == call.op = "remember"
Inserted == Len(log)
Held == IF Inserted < agent.buffer_size THEN Inserted ELSE agent.buffer_size

\* C12: the replay buffer never holds more than buffer_size experiences, and
\* after k calls of remember it holds exactly the last min(k, buffer_size)
\* experiences handed to remember, oldest first: a call on a full buffer
\* evicts the oldest one.
C12_BufferHoldsMostRecent ==
    /\ Len(agent.replay_buffer) <= agent.buffer_size
    /\ Len(agent.replay_buffer) = Held
    /\ \A i \in 1 .. Held :
          agent.replay_buffer[i] = log[Inserted - Held + i]

\* C12 witness: remember was called on a full buffer whose oldest experience
\* differs from every other one in it and from the new one, and that
\* experience is gone.
C12_Witness_EvictedOldest ==
    /\ Remembered
    /\ Len(call.pre.replay_buffer) = agent.buffer_size
    /\ Inserted > agent.buffer_size
    /\ \A i \in 1 .. Len(agent.replay_buffer) :
          agent.replay_buffer[i] # call.pre.replay_buffer[1]

\* The last call was step_and_train; an update ran in it when train_batch
\* advanced the Adam step counter of the primary network.
StepTrained == call.op = "step_and_train"
UpdateRan == agent.network.t # call.pre.network.t
UpdateDue ==
    /\ agent.step_count % agent.train_every = 0
    /\ Len(call.pre.replay_buffer) >= agent.batch_size

\* C13: step_and_train adds one to the step count; it runs an update exactly
\* when the new count is a multiple of train_every and the buffer holds at
\* least batch_size experiences, and then every sampled index lies in the
\* buffer; otherwise nothing but the step count changes.
C13_TrainsOnlyWhenDue ==
    StepTrained =>
        /\ agent.step_count = call.pre.step_count + 1
        /\ UpdateRan <=> UpdateDue
        /\ UpdateRan =>
              /\ Len(call.indices) = agent.batch_size
              /\ \A k \in 1 .. Len(call.indices) :
                    call.indices[k] \in 0 .. (Len(agent.replay_buffer) - 1)
        /\ ~UpdateRan =>
              agent = [call.pre EXCEPT !.step_count = call.pre.step_count + 1]

\* C13 witness: the step count reached a multiple of train_every while the
\* buffer held fewer than batch_size experiences, and only the count moved.
C13_Witness_DueButBufferShort ==
    /\ StepTrained
    /\ agent.step_count % agent.train_every = 0
    /\ Len(agent.replay_buffer) > 0
    /\ Len(agent.replay_buffer) < agent.batch_size
    /\ ~UpdateRan

\* The last call was end_episode.
EpisodeEnded == call.op = "end_episode"

\* C14 (as claimed): epsilon is never below epsilon_min; end_episode
\* multiplies epsilon by epsilon_decay and clamps the product to epsilon_min,
\* and never raises epsilon.
C14_EpsilonClampedAtFloor ==
    /\ agent.epsilon >= agent.epsilon_min
    /\ EpisodeEnded =>
          /\ agent.epsilon =
                 Max(RoundDiv(call.pre.epsilon * agent.epsilon_decay, Thousand),
                     agent.epsilon_min)
          /\ agent.epsilon <= call.pre.epsilon

\* The last call was act, on the features in state; it took the greedy
\* branch; the outputs of the primary network for those features.
Acted == call.op = "act"
ActedGreedily == Acted /\ call.greedy
Outputs == forward(call.pre.network, state)

\* C15 (as claimed): a greedy act returns the index of the largest output of
\* the primary network, and of several equal largest outputs the lowest
\* index.
C15_GreedyTakesFirstMaximum ==
    ActedGreedily =>
        /\ \A j \in 1 .. Len(Outputs) : Outputs[j] <= Outputs[chosen + 1]
        /\ \A j \in 1 .. chosen : Outputs[j] < Outputs[chosen + 1]

\* The input width of the first layer of the primary network the last call
\* found.
InputWidth == call.pre.network.layers[1].in_size

\* C17 (as claimed): forward and train_batch reject an input whose length is
\* not the input width of the first layer before they compute or change
\* anything: a greedy act has an output of forward only for an input of that
\* length, and a training call whose batch has a row of another length
\* leaves the primary network, its step counter t included, as it was.
C17_WrongLengthRejected ==
    /\ ActedGreedily => Len(state) = InputWidth
    /\ StepTrained =>
          ((\E k \in 1 .. Len(call.states) :
               Len(call.states[k]) # InputWidth)
           => call.trained = call.pre.network)

\* The clone clone_weights makes of the primary network as it is now.
Clone == clone_weights(agent.network)
SameParameters(n1, n2) ==
    /\ Len(n1.layers) = Len(n2.layers)
    /\ \A i \in 1 .. Len(n1.layers) :
          /\ n1.layers[i].in_size = n2.layers[i].in_size
          /\ n1.layers[i].out_size = n2.layers[i].out_size
          /\ n1.layers[i].relu = n2.layers[i].relu
          /\ n1.layers[i].weights = n2.layers[i].weights
          /\ n1.layers[i].biases = n2.layers[i].biases
FreshMoments(n) ==
    /\ n.t = 0
    /\ \A i \in 1 .. Len(n.layers) :
          /\ n.layers[i].m_w = Zeros(n.layers[i].in_size * n.layers[i].out_size)
          /\ n.layers[i].v_w = Zeros(n.layers[i].in_size * n.layers[i].out_size)
          /\ n.layers[i].m_b = Zeros(n.layers[i].out_size)
          /\ n.layers[i].v_b = Zeros(n.layers[i].out_size)

\* C19: the clone of the primary network has its shapes, weights and biases,
\* gives the same output for the features at hand, and has zero Adam
\* moments and t = 0; and the clone DQNAgent::new made (the target network)
\* is untouched by the first train_batch on its source: what is blended with
\* the trained source afterwards is the clone of the source as it was before.
C19_CloneIsFreshCopy ==
    /\ SameParameters(Clone, agent.network)
    /\ FreshMoments(Clone)
    /\ state # <<>> => forward(Clone, state) = forward(agent.network, state)
    /\ (StepTrained /\ UpdateRan /\ call.pre.network.t = 0) =>
          agent.target_network =
              soft_update_into(call.trained, clone_weights(call.pre.network),
                               agent.tau)

\* C19 witness: train_batch moved the primary network, which now has a
\* non-zero moment and t = 1, while its clone has none, and the clone made
\* before kept the old parameters.
C19_Witness_CloneOfTrainedNetwork ==
    /\ StepTrained
    /\ UpdateRan
    /\ agent.network.t = 1
    /\ SameParameters(call.pre.target_network, call.pre.network)
    /\ ~SameParameters(call.pre.target_network, call.trained)
    /\ \E i \in 1 .. Len(agent.network.layers) :
          agent.network.layers[i].m_w
              # Zeros(Len(agent.network.layers[i].m_w))
    /\ FreshMoments(Clone)

\* C20: act changes nothing of the agent: epsilon, the two networks, the
\* replay buffer, the learning rate and the step count are after the call
\* what they were before, in the exploring and in the greedy branch.
C20_ActLeavesAgentUnchanged ==
    Acted =>
        /\ agent.epsilon = call.pre.epsilon
        /\ agent.network = call.pre.network
        /\ agent.target_network = call.pre.target_network
        /\ agent.replay_buffer = call.pre.replay_buffer
        /\ agent.learning_rate = call.pre.learning_rate
        /\ agent.step_count = call.pre.step_count
        /\ agent = call.pre

\* C20 witness: a greedy act on an agent that has decayed epsilon, holds
\* experiences and has counted steps.
C20_Witness_GreedyAct ==
    /\ ActedGreedily
    /\ agent.epsilon < EPSILON_START
    /\ agent.replay_buffer # <<>>
    /\ agent.step_count > 0
    /\ agent = call.pre

RateDecayed == call.op = "train"
RateOnTrack == RateDecayed /\ call.updates = LateUpdates + 1 =>
                   call.pre.learning_rate = LateRate
Product(lr) == lr - RoundDiv((Million - agent.lr_decay) * lr, Million)

\* C21: the learning rate is never below lr_min; a training update leaves
\* the learning rate times lr_decay, or lr_min where the product is below
\* it, and no other call (act, remember, end_episode, a step_and_train that
\* does not train) changes the learning rate.
C21_LearningRateClampedAtFloor ==
    /\ agent.learning_rate >= agent.lr_min
    /\ RateDecayed \/ (StepTrained /\ call.updated) =>
          agent.learning_rate =
              Max(Product(call.pre.learning_rate), agent.lr_min)
    /\ Acted \/ Remembered \/ EpisodeEnded
          \/ (StepTrained /\ ~call.updated) =>
              agent.learning_rate = call.pre.learning_rate

\* C21 witness: the update whose product fell below lr_min and was clamped.
C21_Witness_ClampedProduct ==
    /\ RateDecayed
    /\ call.pre.learning_rate > agent.lr_min
    /\ Product(call.pre.learning_rate) < agent.lr_min
    /\ agent.learning_rate = agent.lr_min

Updated == StepTrained /\ call.updated
Batch == 1 .. agent.batch_size
Sampled(k) == call.pre.replay_buffer[call.indices[k] + 1]
Taken(k) == Sampled(k).action + 1
Prediction(k) == forward(call.pre.network, Sampled(k).state)
NextMain(k) == forward(call.pre.network, Sampled(k).next_state)
NextTarget(k) == forward(call.pre.target_network, Sampled(k).next_state)
RewardOf(k) == Sampled(k).reward * (Thousand \div 2)
Maximises(q, b) == \A j \in 1 .. OUTPUT_SIZE : q[b] >= q[j]

\* C22: in a training update the target row of every sampled transition is
\* the primary network's prediction for the transition's state in every
\* column but that of the taken action; that column holds the reward for a
\* terminal transition and otherwise the reward plus gamma times the target
\* network's value, at the next state, of an action that maximises the
\* primary network's output at the next state.
C22_DoubleDqnTargets ==
    Updated =>
        \A k \in Batch :
            Bind(Prediction(k), LAMBDA q :
            Bind(NextMain(k), LAMBDA main_q :
            Bind(NextTarget(k), LAMBDA target_q :
              /\ \A j \in 1 .. OUTPUT_SIZE :
                    j # Taken(k) => call.targets[k][j] = q[j]
              /\ IF Sampled(k).done
                   THEN call.targets[k][Taken(k)] = RewardOf(k)
                   ELSE \E b \in 1 .. OUTPUT_SIZE :
                           /\ Maximises(main_q, b)
                           /\ call.targets[k][Taken(k)] =
                                  RewardOf(k)
                                  + Times(agent.gamma, target_q[b]))))

\* C22 witness: a later update that sampled a transition that did not end
\* the episode, where the target network values the maximising action
\* differently from the primary network and from zero; and one that sampled
\* a terminal transition.
C22_Witness_BootstrappedTarget ==
    /\ Updated
    /\ call.pre.network.t > 0
    /\ \E k \in Batch :
          /\ ~Sampled(k).done
          /\ \E b \in 1 .. OUTPUT_SIZE :
                /\ Maximises(NextMain(k), b)
                /\ NextTarget(k)[b] # NextMain(k)[b]
                /\ Times(agent.gamma, NextTarget(k)[b]) # 0
                /\ call.targets[k][Taken(k)] # Prediction(k)[Taken(k)]

C22_Witness_TerminalTarget ==
    /\ Updated
    /\ \E k \in Batch :
          /\ Sampled(k).done
          /\ NextTarget(k) # <<0, 0, 0, 0>>

InBatch == batch_forward(call.pre.network, Flatten(call.states),
                         Len(call.states)).a2
InBatchRow(a2, b) == [j \in 1 .. OUTPUT_SIZE |-> a2[(b - 1) * OUTPUT_SIZE + j]]

\* C23 (as claimed): in the train_batch call of a training update the
\* prediction train_batch computes for row b of the batch is
\* predict_batch(states)[b], so the output error (prediction - target) is
\* zero in every row for every column but that of the taken action.
C23_BatchPredictionsMatch ==
    Updated =>
        Bind(InBatch, LAMBDA a2 :
            \A b \in Batch :
                /\ InBatchRow(a2, b) = Prediction(b)
                /\ \A j \in 1 .. OUTPUT_SIZE :
                      j # Taken(b) =>
                          InBatchRow(a2, b)[j] - call.targets[b][j] = 0)

\* Row 1 of the batch, which train_batch reads from the start of the
\* flattened inputs, is predicted as predict_batch predicts it.
C23_FirstRowMatches ==
    Updated => InBatchRow(InBatch, 1) = Prediction(1)

RECURSIVE Connected(_, _)
Connected(seen, open) ==
    LET more == {c \in open \ seen : \E s \in seen : c \in Neighbours(s)}
    IN  IF more = {} THEN seen ELSE Connected(seen \cup more, open)

FreeCells == GridCells(grid_size) \ Cells(snake)
TailCell == snake[Len(snake)]
FreeReachable == Cardinality(Connected({snake[1]}, FreeCells) \ {snake[1]})
TailReachable == TailCell \in Connected({snake[1]}, FreeCells \cup {TailCell})
Approach == IF Manhattan(snake[1], food) < Manhattan(pre.snake[1], pre.food)
              THEN 2 ELSE -2
SpaceTerm(r) == IF r < Len(snake) THEN -4
                ELSE IF 2 * r < 3 * Len(snake) THEN -1
                ELSE 0
TailTerm == IF TailReachable THEN 1 ELSE -2
MovedOnLong == /\ SteppedRunning
               /\ ~game_over
               /\ score = pre.score
               /\ ~BelowSafetyMark

\* C24 (as claimed): a step that leaves the engine running without eating,
\* with a snake longer than 15% of the grid area, returns the approach value
\* plus (-2 if R < length, -0.5 if length <= R < 1.5 * length, else 0) plus
\* (+0.5 if the tail cell is reachable from the head, else -1), R being the
\* number of free cells reachable from the head with body cells as obstacles
\* and the tail cell counting as vacated for the tail search.
C24_SafetyTermOverFreeCells ==
    MovedOnLong => reward = Approach + SpaceTerm(FreeReachable) + TailTerm

\* The same with the head's own cell counted in R, as flood_fill_from_head
\* counts it.
C24_SafetyTermCountsHead ==
    MovedOnLong => reward = Approach + SpaceTerm(FreeReachable + 1) + TailTerm

PlainMove == SteppedRunning /\ ~Collides /\ ~OnFood

\* C25: a step of a running engine whose new head is inside the grid, on no
\* body cell and not on the food leaves the new head followed by the old
\* body without its last cell, the same length, the same food and score,
\* and a starvation counter one higher.
C25_PlainMoveShiftsBody ==
    PlainMove =>
        /\ snake = <<NewHead>> \o SubSeq(pre.snake, 1, Len(pre.snake) - 1)
        /\ Len(snake) = Len(pre.snake)
        /\ food = pre.food
        /\ score = pre.score
        /\ steps_without_food = pre.steps_without_food + 1

\* C25 witness: a plain move of a snake that has eaten, with the counter
\* already above zero, that leaves the engine running.
C25_Witness_PlainMoveAfterMeal ==
    /\ PlainMove
    /\ ~game_over
    /\ pre.score > 0
    /\ pre.steps_without_food > 0
    /\ snake[1] = NewHead

\* A plain move that ends the episode by starvation has moved the body and
\* raised the counter all the same.
C25_Witness_PlainMoveStarved ==
    /\ PlainMove
    /\ game_over
    /\ steps_without_food = Limit + 1

\* C27: step returns -10 exactly when it returns the terminal flag true, so
\* a step that returns false returns a reward other than -10; the flag
\* returned is the engine's game_over after the call.
C27_TerminalRewardIffDone ==
    Stepped =>
        /\ (reward = TerminalReward) <=> done
        /\ ~done => reward # TerminalReward
        /\ done = game_over

\* C27 witness: the step that exceeds the starvation limit, the one terminal
\* step that has moved the snake.
C27_Witness_StarvedStepPunished ==
    /\ SteppedRunning
    /\ ~Collides
    /\ done
    /\ reward = TerminalReward
    /\ snake[1] = NewHead

\* The lowest reward of a step that leaves the engine running: away from the
\* food (-1), less room than the snake is long (-2), tail out of reach (-1).
C27_Witness_LowestRunningReward ==
    /\ SteppedRunning
    /\ ~done
    /\ reward = -8

\* C28: the score is 10 * (snake length - 3) in every state; the snake is
\* never shorter than 3, and no step makes it shorter than it was.
C28_ScoreCountsGrowth ==
    /\ score = ScoreStep * (Len(snake) - 3)
    /\ Len(snake) >= 3
    /\ Stepped => Len(snake) >= Len(pre.snake)

\* C28 witness: a step has just eaten for the second time in the episode.
C28_Witness_SecondMeal ==
    /\ SteppedRunning
    /\ OnFood
    /\ Len(snake) = Len(pre.snake) + 1
    /\ Len(snake) = 5
    /\ score = 2 * ScoreStep

\* C26: every episode terminates: after every reset the engine reaches
\* game_over after finitely many calls of step, whatever the actions and the
\* food draws, and the loop goes on to end_episode.
C26_EpisodeTerminates ==
    (op = "reset") ~> (game_over /\ pc = "end_episode")

\* C26 witness: an episode that ate, then went hungry up to the starvation
\* limit, has ended and end_episode is the next call.
C26_Witness_EndedByStarvation ==
    /\ pc = "end_episode"
    /\ game_over
    /\ score > 0
    /\ steps_without_food = Limit + 1

====
